---- MODULE Spec2Model ----
(***************************************************************************)
(* Model of server.js: the POST /predict pipeline (multer upload           *)
(* middleware, route handler, error-handling middleware), the one-shot     *)
(* model load started at process start, and GET /test-firestore.           *)
(*                                                                         *)
(* Every `await` of the source is a point where other requests and the     *)
(* model load may interleave, so each handler is cut into one action per   *)
(* synchronous stretch of code.                                            *)
(*                                                                         *)
(* Scores are modelled in tenths (5 stands for 0.5).  A timestamp is the    *)
(* reading new Date() gives, an input of the environment; toISOString      *)
(* renders a reading injectively and no code path parses it back, so the   *)
(* reading itself stands for the string.                                   *)
(***************************************************************************)
EXTENDS Integers, Sequences, FiniteSets, TLC

\* ---------------------------------------------------------------- bounds
MaxRequests == 2

\* ------------------------------------------------------- program constants
\* limits: { fileSize: 1000000 }
fileSize == 1000000
\* predictionArray[0][0] > 0.5, in tenths
Threshold == 5

\* ------------------------------------------------------------ input sets
Scores == {0, 5, 6}
Sizes == {fileSize, fileSize + 1}
Times == {0, 1}
\* file.mimetype as <<type, subtype>>; the string is type "/" subtype
MimeTypes == {<<"image", "png">>, <<"text", "plain">>}
NoFile == [present |-> FALSE]
Files == {NoFile} \cup
         {[present |-> TRUE, mimetype |-> m, size |-> s] : m \in MimeTypes, s \in Sizes}
Ids == 1..MaxRequests
\* messages of the errors thrown by the libraries inside the route handler
DecodeErrorMsg == "Expected image (BMP, JPEG, PNG, or GIF), but got unsupported image type"
PredictErrorMsg == "Error when checking model"
ArrayErrorMsg == "Tensor is disposed"
StoreErrorMsg == "UNAVAILABLE"

VARIABLES
    model,        \* the shared model reference (let model)
    loadpc,       \* position of the loadModel() call made at start-up
    reqs,         \* the POST /predict requests received so far
    predictions,  \* Firestore collection 'predictions': id -> document
    testDoc,      \* Firestore document test/testDoc
    testRes,      \* last response of GET /test-firestore
    writes        \* history: which request wrote which document id

vars == <<model, loadpc, reqs, predictions, testDoc, testRes, writes>>

NoRes == [code |-> 0]
NoDoc == [exists |-> FALSE]

EmptyCollection == [i \in {} |-> NoDoc]

Send(code, body) == [code |-> code, body |-> body]

\* A request as it arrives; the locals of the handler are still undefined.
NewReq(f) ==
    [file |-> f, pc |-> "upload", reqFile |-> FALSE,
     score |-> -1, result |-> "", suggestion |-> "", id |-> 0, createdAt |-> -1,
     res |-> NoRes,
     \* history fields
     handlerRan |-> FALSE, sawModel |-> FALSE, predicted |-> FALSE, setCalls |-> 0,
     outcome |-> "", err |-> ""]

Init ==
    /\ model = "undefined"
    /\ loadpc = "loading"
    /\ reqs = <<>>
    /\ predictions = EmptyCollection
    /\ testDoc = NoDoc
    /\ testRes = NoRes
    /\ writes = {}

\* ------------------------------------------------------------ loadModel
\* Variant: a failed load is tried again and may then succeed.
LoadModelRetry ==
    /\ loadpc \in {"loading", "failed"}
    /\ model' = "LayersModel"
    /\ loadpc' = "done"
    /\ UNCHANGED <<reqs, predictions, testDoc, testRes, writes>>

\* model = await tf.loadLayersModel(BUCKET_URL) resolves: the reference is set.
LoadModelOk ==
    /\ loadpc = "loading"
    /\ model' = "LayersModel"
    /\ loadpc' = "done"
    /\ UNCHANGED <<reqs, predictions, testDoc, testRes, writes>>

\* The load rejects: the catch block logs, the reference is left as it was.
LoadModelFail ==
    /\ loadpc = "loading"
    /\ loadpc' = "failed"
    /\ UNCHANGED <<model, reqs, predictions, testDoc, testRes, writes>>

\* ------------------------------------------------- error-handling middleware
TooLargeRes ==
    Send(413, [status |-> "fail",
               message |-> "Payload content length greater than maximum allowed: 1MB"])

\* Variant: the 'File too large' case is not mapped.
ErrorMiddlewareNoSizeCase(err) ==
    Send(IF err.status # 0 THEN err.status ELSE 500,
         [status |-> "fail",
          message |-> IF err.message # "" THEN err.message ELSE "Internal Server Error"])

\* err.status is 0 when the error object has no status property.
ErrorMiddleware(err) ==
    IF err.message = "File too large"
    THEN TooLargeRes
    ELSE Send(IF err.status # 0 THEN err.status ELSE 500,
              [status |-> "fail",
               message |-> IF err.message # "" THEN err.message
                           ELSE "Internal Server Error"])

\* ------------------------------------------------------ multer middleware
\* file.mimetype.startsWith('image/')
StartsWithImage(mimetype) == mimetype[1] = "image"

\* fileFilter: the error handed to cb, or NoError for cb(null, true)
NoError == [message |-> "", status |-> 0]
\* Variant: every file is accepted.
fileFilterAcceptAll(file) == NoError

fileFilter(file) ==
    IF ~StartsWithImage(file.mimetype)
    THEN [message |-> "File must be an image", status |-> 0]
    ELSE NoError

\* The verdicts the fileSize limit can give on a file of `size` bytes.  A file
\* over the limit is always cut off; one of exactly the limit is cut off by
\* some builds of the multipart parser and let through by others.
LimitVerdicts(size) ==
    IF size > fileSize THEN {TRUE}
    ELSE IF size = fileSize THEN {TRUE, FALSE}
    ELSE {FALSE}

\* upload.single('image'): no file -> next(); the filter runs when the file
\* part starts, before its bytes are read against the limit; any error goes
\* to next(err), i.e. to the error-handling middleware, and the route handler
\* does not run.
Upload(r) ==
    /\ reqs[r].pc = "upload"
    /\ LET q == reqs[r]
           f == q.file
       IN  IF ~f.present
           THEN reqs' = [reqs EXCEPT ![r] = [q EXCEPT !.pc = "handler"]]
           ELSE IF fileFilter(f) # NoError
           THEN reqs' = [reqs EXCEPT ![r] =
                    [q EXCEPT !.pc = "done",
                              !.res = ErrorMiddleware(fileFilter(f)),
                              !.outcome = "ValidationError",
                              !.err = fileFilter(f).message]]
           ELSE \E cut \in LimitVerdicts(f.size) :
                  IF cut
                  THEN reqs' = [reqs EXCEPT ![r] =
                           [q EXCEPT !.pc = "done",
                                     !.res = ErrorMiddleware(
                                         [message |-> "File too large", status |-> 0]),
                                     !.outcome = "PayloadTooLarge",
                                     !.err = "File too large"]]
                  ELSE reqs' = [reqs EXCEPT ![r] =
                           [q EXCEPT !.pc = "handler", !.reqFile = TRUE]]
    /\ UNCHANGED <<model, loadpc, predictions, testDoc, testRes, writes>>

\* A POST /predict request arrives.
Receive(f) ==
    /\ Len(reqs) < MaxRequests
    /\ reqs' = Append(reqs, NewReq(f))
    /\ UNCHANGED <<model, loadpc, predictions, testDoc, testRes, writes>>

\* --------------------------------------------------------- POST /predict
NotLoadedRes ==
    Send(500, [status |-> "fail",
               message |-> "Model is not loaded yet. Please try again later."])
NoFileRes == Send(400, [status |-> "fail", message |-> "File not uploaded"])
GenericRes == Send(500, [status |-> "fail", message |-> "An error occurred during prediction"])
SuccessRes(data) ==
    Send(200, [status |-> "success", message |-> "Prediction successful", data |-> data])

\* !model
ModelUnset == model = "undefined"

\* Variant: the catch block echoes error.message, as GET /test-firestore does.
CatchEcho(q, kind, msg) ==
    [q EXCEPT !.pc = "done", !.res = Send(500, [status |-> "fail", message |-> msg]),
              !.outcome = kind, !.err = msg]

\* The catch block of the handler: log, answer with the generic failure.
Catch(q, kind, msg) ==
    [q EXCEPT !.pc = "done", !.res = GenericRes, !.outcome = kind, !.err = msg]

\* What the library calls of the synchronous stretch can do: decodeImage
\* throws on bytes it cannot decode, model.predict throws on a tensor it
\* cannot take, or both return.
SyncOutcomes == {"ok", "DecodeError", "InferenceError"}

\* The handler from its entry to `await prediction.array()`.
Started(q) ==
    [q EXCEPT !.handlerRan = TRUE, !.sawModel = ~ModelUnset]

\* Variant: the file is checked before the model.
HandlerBodyFileFirst(q, how) ==
    IF ~q.reqFile
    THEN [q EXCEPT !.pc = "done", !.res = NoFileRes, !.outcome = "UploadMissing"]
    ELSE IF ModelUnset
    THEN [q EXCEPT !.pc = "done", !.res = NotLoadedRes, !.outcome = "ModelNotReady"]
    ELSE IF how = "DecodeError"
    THEN Catch(q, "DecodeError", DecodeErrorMsg)
    ELSE IF how = "InferenceError"
    THEN Catch([q EXCEPT !.predicted = TRUE], "InferenceError", PredictErrorMsg)
    ELSE [q EXCEPT !.pc = "predicting", !.predicted = TRUE]

\* Variant: no check of req.file; reading file.buffer of a missing file throws.
HandlerBodyNoFileCheck(q, how) ==
    IF ModelUnset
    THEN [q EXCEPT !.pc = "done", !.res = NotLoadedRes, !.outcome = "ModelNotReady"]
    ELSE IF ~q.reqFile
    THEN Catch(q, "DecodeError", "Cannot read properties of undefined")
    ELSE IF how = "DecodeError"
    THEN Catch(q, "DecodeError", DecodeErrorMsg)
    ELSE IF how = "InferenceError"
    THEN Catch([q EXCEPT !.predicted = TRUE], "InferenceError", PredictErrorMsg)
    ELSE [q EXCEPT !.pc = "predicting", !.predicted = TRUE]

HandlerBody(q, how) ==
    IF ModelUnset
    THEN [q EXCEPT !.pc = "done", !.res = NotLoadedRes, !.outcome = "ModelNotReady"]
    ELSE IF ~q.reqFile
    THEN [q EXCEPT !.pc = "done", !.res = NoFileRes, !.outcome = "UploadMissing"]
    ELSE IF how = "DecodeError"
    THEN Catch(q, "DecodeError", DecodeErrorMsg)
    ELSE IF how = "InferenceError"
    THEN Catch([q EXCEPT !.predicted = TRUE], "InferenceError", PredictErrorMsg)
    ELSE [q EXCEPT !.pc = "predicting", !.predicted = TRUE]

HandlerStart(r) ==
    /\ reqs[r].pc = "handler"
    /\ \E how \in SyncOutcomes :
          reqs' = [reqs EXCEPT ![r] = HandlerBody(Started(reqs[r]), how)]
    /\ UNCHANGED <<model, loadpc, predictions, testDoc, testRes, writes>>

\* Variant: the threshold is inclusive.
InterpretInclusive(s) == IF s >= Threshold THEN "Cancer" ELSE "Non-cancer"

\* predictionArray[0][0] > 0.5 ? 'Cancer' : 'Non-cancer'
Interpret(s) == IF s > Threshold THEN "Cancer" ELSE "Non-cancer"

\* result === 'Cancer' ? ... : ...
Suggest(result) ==
    IF result = "Cancer" THEN "Segera periksa ke dokter!"
    ELSE "Penyakit kanker tidak terdeteksi."

\* uuidv4(): a random 122-bit identifier, never one that was returned before.
\* Identifiers are only ever compared for equality, so the least unused one
\* stands for whichever fresh value the call returns.
usedIds == {reqs[r].id : r \in DOMAIN reqs} \ {0}
\* Variant: an identifier generator that can repeat itself.
uuidv4Repeating == Ids

uuidv4Values ==
    LET fresh == Ids \ usedIds
    IN  {i \in fresh : \A j \in fresh : i <= j}

\* { id, result, suggestion, createdAt }
Record(q) ==
    [id |-> q.id, result |-> q.result, suggestion |-> q.suggestion,
     createdAt |-> q.createdAt]

\* The handler from the resolution of prediction.array() to the await of
\* doc(id).set(...): interpretation of the value read, id, timestamp.
Interpreted(q, s, id, now) ==
    LET result == Interpret(s)
    IN  [q EXCEPT !.pc = "writing", !.score = s, !.result = result,
                  !.suggestion = Suggest(result), !.id = id, !.createdAt = now,
                  !.setCalls = @ + 1]

\* prediction.array() resolves with score s.
ArrayResolved(r, s) ==
    /\ reqs[r].pc = "predicting"
    /\ \E id \in uuidv4Values, now \in Times :
          reqs' = [reqs EXCEPT ![r] = Interpreted(reqs[r], s, id, now)]
    /\ UNCHANGED <<model, loadpc, predictions, testDoc, testRes, writes>>

\* Variant: the rejection is swallowed and the handler goes on to store a
\* record made from the undefined value (undefined > 0.5 is false).
ArrayRejectedStillWrites(r) ==
    /\ reqs[r].pc = "predicting"
    /\ \E id \in uuidv4Values, now \in Times :
          reqs' = [reqs EXCEPT ![r] =
                     [Interpreted(reqs[r], -1, id, now) EXCEPT !.err = ArrayErrorMsg]]
    /\ UNCHANGED <<model, loadpc, predictions, testDoc, testRes, writes>>

\* prediction.array() rejects: caught by the handler.
ArrayRejected(r) ==
    /\ reqs[r].pc = "predicting"
    /\ reqs' = [reqs EXCEPT ![r] = Catch(reqs[r], "InferenceError", ArrayErrorMsg)]
    /\ UNCHANGED <<model, loadpc, predictions, testDoc, testRes, writes>>

\* Variant: the collection keeps only the document written last.
DocSetSingleDoc(coll, id, data) == [i \in {id} |-> data]

\* doc(id).set(data): the document with that id becomes data, whether or not
\* one existed.
DocSet(coll, id, data) ==
    [i \in DOMAIN coll \cup {id} |-> IF i = id THEN data ELSE coll[i]]

\* The store applies the write of request r.
StoreWrite(r) ==
    /\ reqs[r].pc = "writing"
    /\ predictions' = DocSet(predictions, reqs[r].id, Record(reqs[r]))
    /\ writes' = writes \cup {[req |-> r, id |-> reqs[r].id]}
    /\ reqs' = [reqs EXCEPT ![r].pc = "written"]
    /\ UNCHANGED <<model, loadpc, testDoc, testRes>>

\* The write is refused: set() rejects, the handler catches it.  A rejection
\* is taken to mean that the store did not apply the write.
StoreFail(r) ==
    /\ reqs[r].pc = "writing"
    /\ reqs' = [reqs EXCEPT ![r] = Catch(reqs[r], "StoreError", StoreErrorMsg)]
    /\ UNCHANGED <<model, loadpc, predictions, testDoc, testRes, writes>>

\* set() has resolved: the handler resumes and sends the success response.
Respond(r) ==
    /\ reqs[r].pc = "written"
    /\ LET q == reqs[r]
       IN  reqs' = [reqs EXCEPT ![r] =
               [q EXCEPT !.pc = "done", !.res = SuccessRes(Record(q)),
                         !.outcome = "Success"]]
    /\ UNCHANGED <<model, loadpc, predictions, testDoc, testRes, writes>>

\* ----------------------------------------------------- GET /test-firestore
\* The write to test/testDoc succeeds.
TestFirestoreOk ==
    /\ \E now \in Times :
          testDoc' = [exists |-> TRUE, message |-> "Hello, Firestore!", timestamp |-> now]
    /\ testRes' = Send(200, [status |-> "success", message |-> "Firestore connected!"])
    /\ UNCHANGED <<model, loadpc, reqs, predictions, writes>>

\* The write fails: the raw error message is echoed.
TestFirestoreFail ==
    /\ testRes' = Send(500, [status |-> "fail", message |-> StoreErrorMsg])
    /\ UNCHANGED <<model, loadpc, reqs, predictions, testDoc, writes>>

Next ==
    \/ LoadModelOk
    \/ LoadModelFail
    \/ \E f \in Files : Receive(f)
    \/ \E r \in DOMAIN reqs : Upload(r)
    \/ \E r \in DOMAIN reqs : HandlerStart(r)
    \/ \E r \in DOMAIN reqs, s \in Scores : ArrayResolved(r, s)
    \/ \E r \in DOMAIN reqs : ArrayRejected(r)
    \/ \E r \in DOMAIN reqs : StoreWrite(r)
    \/ \E r \in DOMAIN reqs : StoreFail(r)
    \/ \E r \in DOMAIN reqs : Respond(r)
    \/ TestFirestoreOk
    \/ TestFirestoreFail

Spec == Init /\ [][Next]_vars

\* ------------------------------------------------------------ properties
Done(r) == reqs[r].pc = "done"
WritesOf(r) == {w \in writes : w.req = r}
WritesTo(id) == {w \in writes : w.id = id}
MimeRes == Send(500, [status |-> "fail", message |-> "File must be an image"])
IsImage(f) == f.present /\ f.mimetype[1] = "image"
FailedBeforeStore ==
    {"ModelNotReady", "UploadMissing", "PayloadTooLarge", "ValidationError",
     "DecodeError", "InferenceError"}

\* C1: every document of 'predictions' was written by exactly one request, and
\* that request's inference had completed (a score had been read); a request
\* that ended in model-not-loaded, missing file, upload rejection, decode
\* failure or inference failure wrote nothing.
C1_RecordsComeFromSuccessfulInference ==
    /\ \A id \in DOMAIN predictions :
          \E r \in DOMAIN reqs :
             /\ WritesTo(id) = {[req |-> r, id |-> id]}
             /\ reqs[r].predicted
             /\ reqs[r].score \in Scores
    /\ \A r \in DOMAIN reqs :
          reqs[r].outcome \in FailedBeforeStore =>
             /\ WritesOf(r) = {}
             /\ reqs[r].id \notin DOMAIN predictions
             /\ reqs[r].setCalls = 0

C1_Witness ==
    /\ DOMAIN predictions # {}
    /\ \E r \in DOMAIN reqs : Done(r) /\ reqs[r].outcome = "InferenceError"

\* C2: a request answered 200/success has exactly one record, already stored
\* when the response exists, holding the interpretation of its score; the
\* response's data is that record; no other request wrote under its id.
C2_SuccessHasOneMatchingRecord ==
    \A r \in DOMAIN reqs :
       reqs[r].res.code = 200 =>
          LET q == reqs[r]
          IN  /\ q.res.body.status = "success"
              /\ WritesOf(r) = {[req |-> r, id |-> q.id]}
              /\ q.id \in DOMAIN predictions
              /\ predictions[q.id].id = q.id
              /\ predictions[q.id].result =
                    (IF 2 * q.score > 10 THEN "Cancer" ELSE "Non-cancer")
              /\ predictions[q.id].suggestion =
                    (IF 2 * q.score > 10 THEN "Segera periksa ke dokter!"
                     ELSE "Penyakit kanker tidak terdeteksi.")
              /\ q.res.body.data = predictions[q.id]
              /\ DOMAIN q.res.body.data = {"id", "result", "suggestion", "createdAt"}
              /\ \A w \in writes : w.req # r => w.id # q.id

C2_Witness ==
    \E r1, r2 \in DOMAIN reqs :
       /\ r1 # r2
       /\ reqs[r1].res.code = 200 /\ reqs[r2].res.code = 200
       /\ reqs[r1].result = "Cancer" /\ reqs[r2].result = "Non-cancer"
\* C3 as stated: every request made while the model reference is unset is
\* answered with the model-not-loaded response, whatever it carries, and no
\* inference is attempted.  (The reference is never unset again once set, so a
\* request that is finished while it is unset was made while it was unset.)
C3_AsStated ==
    \A r \in DOMAIN reqs :
       Done(r) /\ ModelUnset => reqs[r].res = NotLoadedRes /\ ~reqs[r].predicted

\* C3 amended: a request whose route handler runs while the reference is
\* unset (it carries no file, or an image the upload middleware accepted) gets
\* the model-not-loaded response, with no inference and no record; a request
\* the upload middleware rejects never reaches the handler and gets the
\* middleware's answer (413, or 500 'File must be an image') also while the
\* reference is unset.
C3_UnsetModelSeenByHandler ==
    \A r \in DOMAIN reqs :
       LET q == reqs[r]
       IN  /\ q.handlerRan /\ ~q.sawModel =>
                /\ Done(r)
                /\ q.res = NotLoadedRes
                /\ ~q.predicted
                /\ WritesOf(r) = {}
           /\ Done(r) /\ ModelUnset =>
                IF q.handlerRan
                THEN ~q.sawModel /\ (~q.file.present \/ IsImage(q.file))
                ELSE /\ q.file.present
                     /\ q.res = (IF IsImage(q.file) THEN TooLargeRes ELSE MimeRes)

C3_Witness ==
    /\ ModelUnset
    /\ \E r1, r2 \in DOMAIN reqs :
          /\ Done(r1) /\ IsImage(reqs[r1].file) /\ reqs[r1].res = NotLoadedRes
          /\ Done(r2) /\ ~reqs[r2].file.present /\ reqs[r2].res = NotLoadedRes

\* C4 as stated: a request with no file is answered 400 'File not uploaded'
\* in every state of the model reference.
C4_AsStated ==
    \A r \in DOMAIN reqs :
       Done(r) /\ ~reqs[r].file.present => reqs[r].res = NoFileRes

\* C4 amended: a request with no file is answered 400 'File not uploaded' when
\* its handler finds the model loaded, and with the model-not-loaded response
\* when its handler finds the reference unset.
C4_NoFileWhenModelLoaded ==
    \A r \in DOMAIN reqs :
       Done(r) /\ ~reqs[r].file.present =>
          /\ reqs[r].handlerRan
          /\ reqs[r].res = (IF reqs[r].sawModel THEN NoFileRes ELSE NotLoadedRes)
          /\ ~reqs[r].predicted
          /\ WritesOf(r) = {}

C4_Witness ==
    \E r \in DOMAIN reqs :
       Done(r) /\ ~reqs[r].file.present /\ reqs[r].sawModel /\ reqs[r].res = NoFileRes

\* C5 as stated: every request whose file exceeds 1,000,000 bytes is answered
\* 413, and its handler never runs.
C5_AsStated ==
    \A r \in DOMAIN reqs :
       Done(r) /\ reqs[r].file.present /\ reqs[r].file.size > 1000000 =>
          /\ reqs[r].res = TooLargeRes
          /\ ~reqs[r].handlerRan

\* C5 amended: every request whose file has an image MIME type and exceeds
\* 1,000,000 bytes is answered 413 with the fixed message; its handler never
\* runs (no inference, no record), whether or not the model is loaded.  (A
\* file that is not an image is rejected for its type before its size counts.)
C5_OversizeImageIs413 ==
    \A r \in DOMAIN reqs :
       Done(r) /\ IsImage(reqs[r].file) /\ reqs[r].file.size > 1000000 =>
          /\ reqs[r].res.code = 413
          /\ reqs[r].res.body =
                [status |-> "fail",
                 message |-> "Payload content length greater than maximum allowed: 1MB"]
          /\ ~reqs[r].handlerRan
          /\ ~reqs[r].predicted
          /\ WritesOf(r) = {}

C5_Witness ==
    /\ ModelUnset
    /\ \E r \in DOMAIN reqs :
          /\ Done(r) /\ IsImage(reqs[r].file) /\ reqs[r].file.size > 1000000
          /\ reqs[r].res = TooLargeRes

\* C6: every request whose file has a MIME type not starting with 'image/' is
\* answered 500, 'fail', 'File must be an image'; no inference, no record.
C6_NonImageIs500WithOwnMessage ==
    \A r \in DOMAIN reqs :
       Done(r) /\ reqs[r].file.present /\ reqs[r].file.mimetype[1] # "image" =>
          /\ reqs[r].res.code = 500
          /\ reqs[r].res.body = [status |-> "fail", message |-> "File must be an image"]
          /\ ~reqs[r].handlerRan
          /\ ~reqs[r].predicted
          /\ WritesOf(r) = {}

C6_Witness ==
    \E r \in DOMAIN reqs :
       /\ Done(r) /\ reqs[r].file.present /\ reqs[r].file.mimetype[1] # "image"
       /\ reqs[r].file.size > 1000000
       /\ reqs[r].res = MimeRes
\* C7 as stated: every failure response other than model-not-loaded, missing
\* file and payload-too-large is the generic 500 'An error occurred during
\* prediction', so no underlying error message appears in a response.
C7_AsStated ==
    \A r \in DOMAIN reqs :
       /\ Done(r)
       /\ reqs[r].res.code # 200
       /\ reqs[r].res \notin {NotLoadedRes, NoFileRes, TooLargeRes}
       => /\ reqs[r].res = GenericRes
          /\ reqs[r].res.body.message # reqs[r].err

\* C7 amended: a request that fails inside the route handler for a reason
\* other than model-not-loaded or missing file (decode error, inference error,
\* store write failure) is answered 500, 'fail', 'An error occurred during
\* prediction', and the underlying message is not in the response; a MIME-type
\* rejection is answered by the error middleware with 500 and its own
\* message 'File must be an image'; a failed store write is not retried and
\* leaves no record.
C7_HandlerFailuresAreGeneric ==
    \A r \in DOMAIN reqs :
       LET q == reqs[r]
       IN  Done(r) =>
             /\ q.outcome \in {"DecodeError", "InferenceError", "StoreError"} =>
                   /\ q.res.code = 500
                   /\ q.res.body = [status |-> "fail",
                                    message |-> "An error occurred during prediction"]
                   /\ q.err # ""
                   /\ q.res.body.message # q.err
             /\ q.outcome = "ValidationError" =>
                   /\ q.err = "File must be an image"
                   /\ q.res = Send(500, [status |-> "fail", message |-> q.err])
             /\ q.outcome = "StoreError" =>
                   /\ q.setCalls = 1
                   /\ WritesOf(r) = {}
                   /\ q.id \notin DOMAIN predictions
             /\ q.res.code # 200 =>
                   q.res \in {NotLoadedRes, NoFileRes, TooLargeRes, GenericRes, MimeRes}

C7_Witness ==
    \E r1, r2 \in DOMAIN reqs :
       /\ Done(r1) /\ reqs[r1].outcome = "StoreError" /\ reqs[r1].res = GenericRes
       /\ Done(r2) /\ reqs[r2].outcome = "DecodeError" /\ reqs[r2].res = GenericRes

\* A request's handler is entered in this step.
HandlerEnters(r) == ~reqs[r].handlerRan /\ reqs'[r].handlerRan

\* C8: the model reference is assigned at most once, by the load started at
\* process start, and never reassigned or unset; a failed load is final (no
\* further load, the reference stays unset, every handler that runs afterwards
\* answers model-not-loaded); once a handler has seen the model loaded, no
\* later handler sees it unset.
C8_ModelAssignedOnce ==
    /\ [](loadpc = "failed" => ModelUnset)
    /\ [](loadpc = "loading" => ModelUnset)
    /\ [][ /\ ~ModelUnset => model' = model
           /\ loadpc # "loading" => loadpc' = loadpc /\ model' = model
           /\ \A r \in DOMAIN reqs :
                 HandlerEnters(r) =>
                    /\ loadpc = "failed" =>
                          reqs'[r].res = NotLoadedRes /\ reqs'[r].pc = "done"
                    /\ (\E o \in DOMAIN reqs : reqs[o].sawModel) => reqs'[r].sawModel
         ]_vars

C8_Witness ==
    /\ loadpc = "failed"
    /\ \E r \in DOMAIN reqs :
          /\ reqs[r].handlerRan /\ reqs[r].reqFile
          /\ reqs[r].res = NotLoadedRes

\* C9: for every score read, the result is 'Cancer' iff the score is above
\* 0.5 and 'Non-cancer' otherwise (0.5 itself gives 'Non-cancer'); the
\* suggestion is 'Segera periksa ke dokter!' iff the result is 'Cancer' and
\* 'Penyakit kanker tidak terdeteksi.' otherwise.  Scores are in tenths.
C9_Interpretation ==
    \A r \in DOMAIN reqs :
       LET q == reqs[r]
       IN  q.score \in Scores =>
             /\ q.result \in {"Cancer", "Non-cancer"}
             /\ q.result = "Cancer" <=> 2 * q.score > 10
             /\ q.score = 5 => q.result = "Non-cancer"
             /\ q.suggestion \in {"Segera periksa ke dokter!",
                                  "Penyakit kanker tidak terdeteksi."}
             /\ q.suggestion = "Segera periksa ke dokter!" <=> q.result = "Cancer"

C9_Witness ==
    \E r1, r2 \in DOMAIN reqs :
       /\ reqs[r1].score = 5 /\ reqs[r1].result = "Non-cancer"
       /\ reqs[r2].score = 6 /\ reqs[r2].result = "Cancer"

\* C10: a stored record is never changed or removed by any later step: the
\* collection only grows and every document keeps its fields.
C10_RecordsImmutable ==
    [][ \A id \in DOMAIN predictions :
           /\ id \in DOMAIN predictions'
           /\ predictions'[id] = predictions[id] ]_vars

C10_Witness ==
    /\ Cardinality(DOMAIN predictions) = 2
    /\ testDoc.exists
    /\ \A r \in DOMAIN reqs : Done(r)

====
